---- MODULE Spec2Model ----
(***************************************************************************)
(* A model of go-gpsd (src/gpsd.go): a Session over one connection to      *)
(* gpsd, its filter registry, and the watch loop goroutine(s) that read    *)
(* newline-terminated JSON reports, peek at their "class", decode them     *)
(* and deliver them to the filters registered for that class.              *)
(*                                                                         *)
(* The state is the state right after a successful Dial: the banner line   *)
(* has been consumed and the filter map is empty.                          *)
(***************************************************************************)
EXTENDS Integers, Sequences, FiniteSets, TLC

\* ------------------------------------------------------------------ bounds
\* lines that arrive on the connection during one run
MaxLines == 3
\* AddFilter calls during one run
MaxFilters == 2
\* read failures other than end-of-stream and closed during one run
MaxErrs == 1
\* SendCommand calls during one run
MaxCmds == 2
\* calls of Close that the connection answers with an error during one run
MaxCloseErrs == 1

\* The watch goroutines of a run, in the order Watch starts them.
Loops == {1, 2}

\* ------------------------------------------------------------- wire values
\* The classes unmarshalReport has a case for (gpsd.go:311-346).
DecodedClasses ==
    {"TPV", "SKY", "GST", "ATT", "VERSION", "DEVICES", "PPS", "TOFF", "ERROR"}

\* The classes README.md lists as supported (README.md:57-65).
DocumentedClasses ==
    {"VERSION", "TPV", "SKY", "ATT", "GST", "PPS", "DEVICES", "DEVICE", "ERROR"}

\* The class strings that occur in a run: two classes with a decoder and
\* DEVICE, which has none.
Classes == {"TPV", "SKY", "DEVICE"}

\* The callbacks a caller registers.
FilterIds == {"f", "g"}

\* A line of the stream, by what encoding/json makes of it:
\*   valid   the line is syntactically valid JSON (an object)
\*   class   the value of its "class" member: a string, or NonString when
\*           the member is not a JSON string
\*   fields  "ok" when the other members fit the report struct of the
\*           line's class, "mistyped" when one has the wrong JSON type
NonString == "<nonstring>"

Line(valid, class, fields) ==
    [valid |-> valid, class |-> class, fields |-> fields]

WireLines ==
    { Line(FALSE, "", "ok"),
      Line(TRUE, NonString, "ok"),
      Line(TRUE, "TPV", "ok"),
      Line(TRUE, "TPV", "mistyped"),
      Line(TRUE, "SKY", "ok"),
      Line(TRUE, "DEVICE", "ok") }

\* The banner gpsd sends on connect: a VERSION report.
Banner == Line(TRUE, "VERSION", "ok")

\* The keys the filter map is looked up or written with in a run.
FilterKeys == Classes \cup {"VERSION"}

\* The command texts a caller sends.
CommandTexts == {"POLL", "50%", "%d", "%%"}

\* The format string of Watch (gpsd.go:226).
WatchCommand == "?WATCH={\"enable\":true,\"json\":true}"

\* The nil error.
Nil == "nil"

\* fmt.Fprintf(w, format) without operands, for formats in which no flag,
\* width, precision or index follows a '%': text is copied, "%%" prints
\* "%", a '%' at the end prints "%!(NOVERB)", and any other verb c prints
\* "%!c(MISSING)".
RECURSIVE Sprintf(_)
Sprintf(format) ==
    IF format = "" THEN ""
    ELSE IF SubSeq(format, 1, 1) # "%"
    THEN SubSeq(format, 1, 1) \o Sprintf(SubSeq(format, 2, Len(format)))
    ELSE IF Len(format) = 1 THEN "%!(NOVERB)"
    ELSE IF SubSeq(format, 2, 2) = "%"
    THEN "%" \o Sprintf(SubSeq(format, 3, Len(format)))
    ELSE "%!" \o SubSeq(format, 2, 2) \o "(MISSING)"
         \o Sprintf(SubSeq(format, 3, Len(format)))

\* A decoded report: the struct the pointer points to and its Class field.
Report(type, class) == [type |-> type, Class |-> class]

\* The nil interface value / nil report pointer.
NilReport == Report(Nil, "")

\* A peek that takes a line that is no JSON for a line without a class.
peek_Lenient(line) ==
    IF ~line.valid \/ line.class = NonString THEN [Class |-> "", err |-> Nil]
    ELSE [Class |-> line.class, err |-> Nil]

\* json.Unmarshal(lineBytes, &reportPeek) with reportPeek a gpsdReport
\* (gpsd.go:40-42, 280-282): only the class member is looked at.
peek(line) ==
    IF ~line.valid THEN [Class |-> "", err |-> "SyntaxError"]
    ELSE IF line.class = NonString THEN [Class |-> "", err |-> "UnmarshalTypeError"]
    ELSE [Class |-> line.class, err |-> Nil]

\* The struct a case of unmarshalReport decodes into.
ReportType(class) == class \o "Report"

\* A decode that drops the error of json.Unmarshal.
unmarshalInto_NoErr(class, line) ==
    IF ~line.valid THEN [report |-> NilReport, err |-> Nil]
    ELSE [report |-> Report(ReportType(class),
                            IF line.class = NonString THEN "" ELSE line.class),
          err |-> Nil]

\* json.Unmarshal(bytes, &r) with r a nil pointer to the report struct of
\* `class`: a syntax error leaves r nil, a type mismatch leaves the struct
\* allocated and returns the error.
unmarshalInto(class, line) ==
    IF ~line.valid THEN [report |-> NilReport, err |-> "SyntaxError"]
    ELSE IF line.class = NonString
    THEN [report |-> Report(ReportType(class), ""), err |-> "UnmarshalTypeError"]
    ELSE IF line.fields = "mistyped"
    THEN [report |-> Report(ReportType(class), line.class),
          err |-> "UnmarshalTypeError"]
    ELSE [report |-> Report(ReportType(class), line.class), err |-> Nil]

\* unmarshalReport (gpsd.go:307-350): the switch over class, and the
\* fall-through `return nil, err` with err still nil.
unmarshalReport(class, line) ==
    IF class \in DecodedClasses
    THEN unmarshalInto(class, line)
    ELSE [report |-> NilReport, err |-> Nil]

\* A loop that prints every read error.
PrintsStreamError_All(err) == TRUE

\* watch (gpsd.go:296): which read errors are printed as a stream error.
PrintsStreamError(err) == err # "ErrClosed"

\* A loop that only leaves on the closed condition.
BreaksLoop_ClosedOnly(err) == err = "ErrClosed"

\* watch (gpsd.go:299): which read errors leave the loop.
BreaksLoop(err) == err \in {"EOF", "ErrClosed"}

\* A loop without the subscriber check.
NoSubscribers_Never(fs, class) == FALSE

\* watch (gpsd.go:283): no filter registered for the class.
NoSubscribers(fs, class) ==
    IF class \in DOMAIN fs THEN Len(fs[class]) = 0 ELSE TRUE

\* A deliverReport that ranges over the filters of one fixed class.
FiltersOf_OneClass(fs, class) == fs["TPV"]

\* s.filters[class] (a missing key reads as the nil slice).
FiltersOf(fs, class) ==
    IF class \in DOMAIN fs THEN fs[class] ELSE <<>>

\* ------------------------------------------------------------------- state
VARIABLES
    filters,     \* Session.filters: class -> sequence of callbacks
    socket,      \* Session.socket: "none" before Dial, "open", "nil" after Close
    sockCloses,  \* number of calls of Close on the underlying connection
    closeRes,    \* what the last call of Session.Close returned
    eof,         \* the peer has closed and all its data has been read
    crashed,     \* the process died of a panic or a runtime fatal error
    nWatch,      \* number of watch goroutines started
    pc,          \* where each watch goroutine is
    cur,         \* the dispatch each goroutine is in the middle of
    doneSent,    \* values each goroutine has sent on its done channel
    lines,       \* the lines read so far, in arrival order
    decoded,     \* the line numbers unmarshalReport was called for
    delivered,   \* the callback invocations so far, in order
    log,         \* what was printed to standard output, in order
    nErrs,       \* read failures other than EOF / closed so far
    readErr,     \* the err of each goroutine's last ReadString
    lateAdd,     \* AddFilter was called after a Watch
    fault,       \* what the process died of, "none" while it lives
    consumed,    \* lines taken off the Session's reader so far
    out,         \* the writes made to the socket, in order
    dialRes      \* what Dial returned as its error, "none" before the call

vars == <<filters, socket, sockCloses, closeRes, eof, crashed, nWatch, pc, cur,
          doneSent, lines, decoded, delivered, log, nErrs, readErr, lateAdd,
          fault, consumed, out, dialRes>>

NoDispatch == [class |-> "", report |-> NilReport, subs |-> <<>>, i |-> 0, n |-> 0]

Init ==
    /\ filters = [c \in FilterKeys |-> <<>>]
    /\ socket = "open"
    /\ sockCloses = 0
    /\ closeRes = "none"
    /\ eof = FALSE
    /\ crashed = FALSE
    /\ nWatch = 0
    /\ pc = [w \in Loops |-> "none"]
    /\ cur = [w \in Loops |-> NoDispatch]
    /\ doneSent = [w \in Loops |-> 0]
    /\ lines = <<>>
    /\ decoded = <<>>
    /\ delivered = <<>>
    /\ log = <<>>
    /\ nErrs = 0
    /\ readErr = [w \in Loops |-> Nil]
    /\ lateAdd = FALSE
    /\ fault = "none"
    /\ consumed = 1
    /\ out = <<>>
    /\ dialRes = Nil

\* The state before Dial: there is no Session yet.
InitDial ==
    /\ filters = [c \in FilterKeys |-> <<>>]
    /\ socket = "none"
    /\ sockCloses = 0
    /\ closeRes = "none"
    /\ eof = FALSE
    /\ crashed = FALSE
    /\ nWatch = 0
    /\ pc = [w \in Loops |-> "none"]
    /\ cur = [w \in Loops |-> NoDispatch]
    /\ doneSent = [w \in Loops |-> 0]
    /\ lines = <<>>
    /\ decoded = <<>>
    /\ delivered = <<>>
    /\ log = <<>>
    /\ nErrs = 0
    /\ readErr = [w \in Loops |-> Nil]
    /\ lateAdd = FALSE
    /\ fault = "none"
    /\ consumed = 0
    /\ out = <<>>
    /\ dialRes = "none"

\* A goroutine that is inside the for loop of watch.
Running(w) == pc[w] \in {"read", "blocked", "deliver", "callback"}

NumFilters == Len(filters["TPV"]) + Len(filters["SKY"]) + Len(filters["DEVICE"])
              + Len(filters["VERSION"])

\* The SendCommand calls made so far.
NumCmds == Cardinality({i \in 1..Len(out) : out[i].op = "SendCommand"})

\* What ReadString can return next: the banner as long as nothing was read
\* off the connection, the reports of the run after it.
OnWire(line) == IF consumed = 0 THEN line = Banner ELSE line \in WireLines

\* ----------------------------------------------------------- caller's calls
\* A dialCommon that leaves the banner in the reader.
Dial_NoBannerRead(outcome) ==
    /\ ~crashed
    /\ socket = "none"
    /\ CASE outcome = "refused" ->
              /\ dialRes' = "connection refused"
              /\ UNCHANGED <<socket, consumed, eof>>
         [] OTHER ->
              /\ dialRes' = Nil
              /\ socket' = "open"
              /\ UNCHANGED <<consumed, eof>>
    /\ filters' = [c \in FilterKeys |-> <<>>]
    /\ UNCHANGED <<sockCloses, closeRes, crashed, nWatch, pc, cur, doneSent,
                   lines, decoded, delivered, log, nErrs, readErr, lateAdd,
                   fault, out>>

\* Dial / DialTimeout / dialCommon (gpsd.go:195-216): a failed connect
\* returns the error; otherwise one ReadString takes the banner line off the
\* reader (its error is dropped: the peer may have closed before sending
\* one) and the filter map is made.
Dial(outcome) ==
    /\ ~crashed
    /\ socket = "none"
    /\ CASE outcome = "refused" ->
              /\ dialRes' = "connection refused"
              /\ UNCHANGED <<socket, consumed, eof>>
         [] outcome = "banner" ->
              /\ dialRes' = Nil
              /\ socket' = "open"
              /\ consumed' = consumed + 1
              /\ UNCHANGED eof
         [] OTHER ->
              /\ dialRes' = Nil
              /\ socket' = "open"
              /\ eof' = TRUE
              /\ UNCHANGED consumed
    /\ filters' = [c \in FilterKeys |-> <<>>]
    /\ UNCHANGED <<sockCloses, closeRes, crashed, nWatch, pc, cur, doneSent,
                   lines, decoded, delivered, log, nErrs, readErr, lateAdd,
                   fault, out>>

DialOutcomes == {"refused", "banner", "eof"}

\* An AddFilter that puts the new filter first.
AddFilter_Prepend(class, f) ==
    /\ ~crashed
    /\ socket # "none"
    /\ NumFilters < MaxFilters
    /\ filters' = [filters EXCEPT ![class] = <<f>> \o @]
    /\ lateAdd' = (lateAdd \/ nWatch > 0)
    /\ UNCHANGED <<socket, sockCloses, closeRes, eof, crashed, nWatch, pc, cur,
                   doneSent, lines, decoded, delivered, log, nErrs, readErr,
                   fault, consumed, out, dialRes>>

\* Session.AddFilter (gpsd.go:251-253).
AddFilter(class, f) ==
    /\ ~crashed
    /\ socket # "none"
    /\ NumFilters < MaxFilters
    /\ filters' = [filters EXCEPT ![class] = Append(@, f)]
    /\ lateAdd' = (lateAdd \/ nWatch > 0)
    /\ UNCHANGED <<socket, sockCloses, closeRes, eof, crashed, nWatch, pc, cur,
                   doneSent, lines, decoded, delivered, log, nErrs, readErr,
                   fault, consumed, out, dialRes>>

\* Session.AddFilter while a watch goroutine is in its loop: the map write
\* races with the goroutine's map reads (there is no lock), and the Go
\* runtime may end the process with "concurrent map read and map write".
AddFilterRace(class, f) ==
    /\ ~crashed
    /\ NumFilters < MaxFilters
    /\ \E w \in Loops : Running(w)
    /\ crashed' = TRUE
    /\ fault' = "concurrent map read and map write"
    /\ UNCHANGED <<filters, socket, sockCloses, closeRes, eof, nWatch, pc, cur,
                   doneSent, lines, decoded, delivered, log, nErrs, readErr,
                   lateAdd, consumed, out, dialRes>>

\* One write to the socket by op: the bytes fmt.Fprintf makes of the format,
\* the error of the write, and what the caller gets back of it (Watch
\* returns only the channel, SendCommand returns nothing).
Written(op, text, format, werr) ==
    [op |-> op, text |-> text,
     bytes |-> IF werr = Nil THEN Sprintf(format) ELSE "",
     err |-> werr, ret |-> "none"]

\* Session.Watch (gpsd.go:225-232): write the WATCH command (the error of
\* the write is dropped), make the done channel, start goroutine w.  With
\* s.socket nil the Fprintf panics.
Watch(w, werr) ==
    /\ ~crashed
    /\ socket # "none"
    /\ w = nWatch + 1
    /\ IF socket = "nil"
       THEN /\ crashed' = TRUE
            /\ fault' = "Watch: nil socket"
            /\ UNCHANGED <<nWatch, pc, out>>
       ELSE /\ nWatch' = nWatch + 1
            /\ pc' = [pc EXCEPT ![w] = "read"]
            /\ out' = Append(out, Written("Watch", WatchCommand, WatchCommand, werr))
            /\ UNCHANGED <<crashed, fault>>
    /\ UNCHANGED <<filters, socket, sockCloses, closeRes, eof, cur, doneSent,
                   lines, decoded, delivered, log, nErrs, readErr, lateAdd,
                   consumed, dialRes>>

\* Session.SendCommand (gpsd.go:235-237): the command is the format string
\* of Fprintf, and the error of the write is dropped.  With s.socket nil the
\* Fprintf panics.
SendCommand(command, werr) ==
    /\ ~crashed
    /\ socket # "none"
    /\ NumCmds < MaxCmds
    /\ IF socket = "nil"
       THEN /\ crashed' = TRUE
            /\ fault' = "SendCommand: nil socket"
            /\ UNCHANGED out
       ELSE /\ out' = Append(out, Written("SendCommand", command,
                                          "?" \o command \o ";", werr))
            /\ UNCHANGED <<crashed, fault>>
    /\ UNCHANGED <<filters, socket, sockCloses, closeRes, eof, nWatch, pc, cur,
                   doneSent, lines, decoded, delivered, log, nErrs, readErr,
                   lateAdd, consumed, dialRes>>

\* The errors a write to the socket ends with.
WriteErrors == {Nil, "EPIPE"}

\* The errors net.Conn.Close ends with.
CloseErrors == {Nil, "close error"}

\* A Close without the nil check.
Close_Again(cerr) ==
    /\ ~crashed
    /\ socket # "none"
    /\ cerr = Nil
    /\ socket' = "nil"
    /\ sockCloses' = sockCloses + 1
    /\ closeRes' = Nil
    /\ UNCHANGED <<filters, eof, crashed, nWatch, pc, cur, doneSent, lines,
                   decoded, delivered, log, nErrs, readErr, lateAdd, fault,
                   consumed, out, dialRes>>

\* Session.Close (gpsd.go:262-273): on a nil socket the "already closed"
\* error; else the connection is closed, and the socket field is set to nil
\* only when that returned no error.  The first Close of a connection can
\* fail, and every Close of a connection that was closed before does.
Close(cerr) ==
    /\ ~crashed
    /\ socket # "none"
    /\ IF socket = "nil"
       THEN /\ cerr = Nil
            /\ closeRes' = "already closed"
            /\ UNCHANGED <<socket, sockCloses>>
       ELSE /\ sockCloses' = sockCloses + 1
            /\ IF cerr = Nil
               THEN /\ sockCloses = 0
                    /\ socket' = "nil"
                    /\ closeRes' = Nil
               ELSE /\ sockCloses < MaxCloseErrs
                    /\ closeRes' = cerr
                    /\ UNCHANGED socket
    /\ UNCHANGED <<filters, eof, crashed, nWatch, pc, cur, doneSent, lines,
                   decoded, delivered, log, nErrs, readErr, lateAdd, fault,
                   consumed, out, dialRes>>

\* ------------------------------------------------------------ the watch loop
\* The body of the loop for a line that was read (gpsd.go:280-294).  The
\* message of the second Println prints err, the (nil) error of the peek,
\* not err2.
ProcessLine(w, line) ==
    LET n == Len(lines) + 1
        p == peek(line)
        r == unmarshalReport(p.Class, line)
        subs == FiltersOf(filters, p.Class)
    IN  /\ lines' = Append(lines, line)
        /\ consumed' = consumed + 1
        /\ readErr' = [readErr EXCEPT ![w] = Nil]
        /\ IF p.err # Nil
           THEN /\ log' = Append(log, [msg |-> "JSON parsing error:",
                                       arg |-> p.err, n |-> n])
                /\ pc' = [pc EXCEPT ![w] = "read"]
                /\ UNCHANGED <<cur, decoded>>
           ELSE IF NoSubscribers(filters, p.Class)
           THEN /\ pc' = [pc EXCEPT ![w] = "read"]
                /\ UNCHANGED <<cur, decoded, log>>
           ELSE /\ decoded' = Append(decoded, n)
                /\ IF r.err # Nil
                   THEN /\ log' = Append(log, [msg |-> "JSON parsing error 2:",
                                               arg |-> p.err, n |-> n])
                        /\ pc' = [pc EXCEPT ![w] = "read"]
                        /\ UNCHANGED cur
                   ELSE IF Len(subs) = 0
                   THEN /\ pc' = [pc EXCEPT ![w] = "read"]
                        /\ UNCHANGED <<cur, log>>
                   ELSE /\ cur' = [cur EXCEPT ![w] =
                                     [class |-> p.Class, report |-> r.report,
                                      subs |-> subs, i |-> 1, n |-> n]]
                        /\ pc' = [pc EXCEPT ![w] = "deliver"]
                        /\ UNCHANGED log

\* ReadString returns a line that was already in the bufio buffer
\* (gpsd.go:279); the buffer may hold lines after the socket was closed.
ReadBuffered(w, line) ==
    /\ ~crashed
    /\ pc[w] = "read"
    /\ ~eof
    /\ Len(lines) < MaxLines
    /\ OnWire(line)
    /\ ProcessLine(w, line)
    /\ UNCHANGED <<filters, socket, sockCloses, closeRes, eof, crashed, nWatch,
                   doneSent, delivered, nErrs, lateAdd, fault, out, dialRes>>

\* ReadString finds no complete line in the buffer and reads the socket.
ReadBlock(w) ==
    /\ ~crashed
    /\ pc[w] = "read"
    /\ pc' = [pc EXCEPT ![w] = "blocked"]
    /\ UNCHANGED <<filters, socket, sockCloses, closeRes, eof, crashed, nWatch,
                   cur, doneSent, lines, decoded, delivered, log, nErrs,
                   readErr, lateAdd, fault, consumed, out, dialRes>>

\* The pending socket read returns a line sent by the peer.
ReadArrived(w, line) ==
    /\ ~crashed
    /\ pc[w] = "blocked"
    /\ sockCloses = 0
    /\ ~eof
    /\ Len(lines) < MaxLines
    /\ OnWire(line)
    /\ ProcessLine(w, line)
    /\ UNCHANGED <<filters, socket, sockCloses, closeRes, eof, crashed, nWatch,
                   doneSent, delivered, nErrs, lateAdd, fault, out, dialRes>>

\* Two goroutines are inside ReadString of the one bufio.Reader at once
\* (there is no lock): besides handing either of them a line or a damaged
\* line, the unsynchronised buffer indices can make the read panic.
ReadRace(w) ==
    /\ ~crashed
    /\ pc[w] = "blocked"
    /\ \E v \in Loops \ {w} : pc[v] = "blocked"
    /\ crashed' = TRUE
    /\ fault' = "bufio.Reader race"
    /\ UNCHANGED <<filters, socket, sockCloses, closeRes, eof, nWatch, pc, cur,
                   doneSent, lines, decoded, delivered, log, nErrs, readErr,
                   lateAdd, consumed, out, dialRes>>

\* The else branch of the loop for a read error (gpsd.go:295-302).
ReadFailed(w, err) ==
    /\ readErr' = [readErr EXCEPT ![w] = err]
    /\ log' = IF PrintsStreamError(err)
              THEN Append(log, [msg |-> "Stream reader error (is gpsd running?):",
                                arg |-> err, n |-> 0])
              ELSE log
    /\ pc' = [pc EXCEPT ![w] = IF BreaksLoop(err) THEN "send" ELSE "read"]

\* The pending socket read fails: with net.ErrClosed once the connection was
\* closed, else with io.EOF when the peer has closed, else with another
\* error (a connection reset).
ReadError(w, err) ==
    /\ ~crashed
    /\ pc[w] = "blocked"
    /\ CASE sockCloses > 0 -> err = "ErrClosed" /\ UNCHANGED <<eof, nErrs>>
         [] sockCloses = 0 /\ eof -> err = "EOF" /\ UNCHANGED <<eof, nErrs>>
         [] OTHER -> \/ err = "EOF" /\ eof' = TRUE /\ UNCHANGED nErrs
                     \/ /\ err = "ECONNRESET"
                        /\ nErrs < MaxErrs
                        /\ nErrs' = nErrs + 1
                        /\ UNCHANGED eof
    /\ ReadFailed(w, err)
    /\ UNCHANGED <<filters, socket, sockCloses, closeRes, crashed, nWatch, cur,
                   doneSent, lines, decoded, delivered, lateAdd, fault,
                   consumed, out, dialRes>>

\* One iteration of the range loop of deliverReport (gpsd.go:256-257): the
\* next filter of the slice is called with the report and starts running.
Deliver(w) ==
    /\ ~crashed
    /\ pc[w] = "deliver"
    /\ LET d == cur[w]
       IN  delivered' = Append(delivered,
               [f |-> d.subs[d.i], key |-> d.class, report |-> d.report,
                n |-> d.n, w |-> w])
    /\ pc' = [pc EXCEPT ![w] = "callback"]
    /\ UNCHANGED <<filters, socket, sockCloses, closeRes, eof, crashed, nWatch,
                   cur, doneSent, lines, decoded, log, nErrs, readErr, lateAdd,
                   fault, consumed, out, dialRes>>

\* The running filter returns (gpsd.go:256-258): the range loop goes to the
\* next filter, or deliverReport returns and the for loop of watch reads on.
CallbackReturn(w) ==
    /\ ~crashed
    /\ pc[w] = "callback"
    /\ LET d == cur[w]
       IN  IF d.i < Len(d.subs)
           THEN /\ cur' = [cur EXCEPT ![w].i = d.i + 1]
                /\ pc' = [pc EXCEPT ![w] = "deliver"]
           ELSE /\ cur' = [cur EXCEPT ![w] = NoDispatch]
                /\ pc' = [pc EXCEPT ![w] = "read"]
    /\ UNCHANGED <<filters, socket, sockCloses, closeRes, eof, crashed, nWatch,
                   doneSent, lines, decoded, delivered, log, nErrs, readErr,
                   lateAdd, fault, consumed, out, dialRes>>

\* The running filter panics: deliverReport and watch have no recover, so
\* the panic leaves the goroutine and ends the process.
CallbackPanic(w) ==
    /\ ~crashed
    /\ pc[w] = "callback"
    /\ crashed' = TRUE
    /\ fault' = "panic in filter"
    /\ UNCHANGED <<filters, socket, sockCloses, closeRes, eof, nWatch, pc, cur,
                   doneSent, lines, decoded, delivered, log, nErrs, readErr,
                   lateAdd, consumed, out, dialRes>>

\* A send placed inside the loop: the goroutine goes on reading after it.
SendDone_InLoop(w) ==
    /\ ~crashed
    /\ pc[w] = "send"
    /\ doneSent' = [doneSent EXCEPT ![w] = @ + 1]
    /\ pc' = [pc EXCEPT ![w] = "read"]
    /\ UNCHANGED <<filters, socket, sockCloses, closeRes, eof, crashed, nWatch,
                   cur, lines, decoded, delivered, log, nErrs, readErr, lateAdd,
                   fault, consumed, out, dialRes>>

\* A send in the error branch of the loop that is not followed by a break:
\* the goroutine is back in ReadString after it.
SendDone_NoBreak(w) ==
    /\ ~crashed
    /\ pc[w] = "send"
    /\ doneSent' = [doneSent EXCEPT ![w] = 1]
    /\ pc' = [pc EXCEPT ![w] = "blocked"]
    /\ UNCHANGED <<filters, socket, sockCloses, closeRes, eof, crashed, nWatch,
                   cur, lines, decoded, delivered, log, nErrs, readErr, lateAdd,
                   fault, consumed, out, dialRes>>

\* done <- true (gpsd.go:304): the channel is unbuffered, so the send
\* completes when the caller receives from it, and the goroutine returns.
SendDone(w) ==
    /\ ~crashed
    /\ pc[w] = "send"
    /\ doneSent' = [doneSent EXCEPT ![w] = @ + 1]
    /\ pc' = [pc EXCEPT ![w] = "exit"]
    /\ UNCHANGED <<filters, socket, sockCloses, closeRes, eof, crashed, nWatch,
                   cur, lines, decoded, delivered, log, nErrs, readErr, lateAdd,
                   fault, consumed, out, dialRes>>

\* The read errors a run can see.
ReadErrors == {"EOF", "ErrClosed", "ECONNRESET"}

\* A run in which the caller calls Watch once.
Next ==
    \/ \E c \in Classes, f \in FilterIds : AddFilter(c, f)
    \/ \E c \in Classes, f \in FilterIds : AddFilterRace(c, f)
    \/ Watch(1, Nil)
    \/ Close(Nil)
    \/ \E l \in WireLines : ReadBuffered(1, l)
    \/ ReadBlock(1)
    \/ \E l \in WireLines : ReadArrived(1, l)
    \/ \E e \in ReadErrors : ReadError(1, e)
    \/ Deliver(1)
    \/ CallbackReturn(1)
    \/ CallbackPanic(1)
    \/ SendDone(1)

Spec == Init /\ [][Next]_vars

\* The reports of the runs below: one that is delivered, one that is no JSON.
FewLines == {Line(TRUE, "TPV", "ok"), Line(FALSE, "", "ok")}

\* The watch loop of goroutine w over FewLines.
LoopSteps(w) ==
    \/ \E l \in FewLines \cup {Banner} : ReadBuffered(w, l)
    \/ ReadBlock(w)
    \/ \E l \in FewLines \cup {Banner} : ReadArrived(w, l)
    \/ \E e \in ReadErrors : ReadError(w, e)
    \/ Deliver(w)
    \/ CallbackReturn(w)
    \/ SendDone(w)

\* A run from before Dial, with a filter for the banner's class.
NextDial ==
    \/ \E o \in DialOutcomes : Dial(o)
    \/ \E c \in {"VERSION", "TPV"} : AddFilter(c, "f")
    \/ Watch(1, Nil)
    \/ Close(Nil)
    \/ LoopSteps(1)

SpecDial == InitDial /\ [][NextDial]_vars

\* A run in which the caller sends commands.
NextCmd ==
    \/ \E e \in WriteErrors : Watch(1, e)
    \/ \E t \in CommandTexts, e \in WriteErrors : SendCommand(t, e)
    \/ \E e \in CloseErrors : Close(e)
    \/ ReadBlock(1)
    \/ ReadArrived(1, Line(TRUE, "TPV", "ok"))
    \/ \E e \in ReadErrors : ReadError(1, e)
    \/ SendDone(1)

SpecCmd == Init /\ [][NextCmd]_vars

\* A run in which the caller calls Watch twice.
NextRewatch ==
    \/ AddFilter("TPV", "f")
    \/ Watch(1, Nil)
    \/ Watch(2, Nil)
    \/ Close(Nil)
    \/ \E w \in Loops : LoopSteps(w)
    \/ \E w \in Loops : ReadRace(w)

SpecRewatch == Init /\ [][NextRewatch]_vars

\* ------------------------------------------------------ notions of the claims
StreamErrorMsg == "Stream reader error (is gpsd running?):"
PeekErrorMsg == "JSON parsing error:"
DecodeErrorMsg == "JSON parsing error 2:"

Idx == 1..Len(lines)

\* A line the class of which cannot be read: no JSON, or a class member
\* that is no string.
Malformed(l) == ~l.valid \/ l.class = NonString

\* A line that is JSON, names its class and fits the struct of its class.
WellFormed(l) == l.valid /\ l.class # NonString /\ l.fields = "ok"

\* Some filter is registered for the class of the line.
Subscribed(l) == l.class \in DOMAIN filters /\ filters[l.class] # <<>>

\* No goroutine is in the middle of dispatching line n.
Settled(n) == \A w \in Loops : cur[w].n # n

\* The callback invocations made for line n, in order.
DeliveredFor(n) == SelectSeq(delivered, LAMBDA d : d.n = n)

Callbacks(ds) == [i \in 1..Len(ds) |-> ds[i].f]

\* The number of lines printed with message msg for line n.
Printed(msg, n) ==
    Cardinality({i \in 1..Len(log) : log[i].msg = msg /\ log[i].n = n})

\* A goroutine has left its loop only after a read failed with end-of-stream
\* or the closed condition.
StopsOnlyOnReadError ==
    \A w \in Loops :
        pc[w] \in {"send", "exit"} => readErr[w] \in {"EOF", "ErrClosed"}

C2_OtherErrorStops ==
    [][nErrs' > nErrs =>
          \E w \in Loops : pc[w] = "blocked" /\ pc'[w] = "send"]_vars

\* C3: a read that is pending when the Session is closed fails with the
\* closed condition: the goroutine leaves the loop without printing,
\* reading or delivering anything, then sends on done once (the send is
\* possible as soon as the caller receives) and returns.
C3_CloseUnblocksSilently ==
    /\ [][\A w \in Loops :
            (pc[w] = "blocked" /\ socket = "nil" /\ pc'[w] # "blocked") =>
                /\ pc'[w] = "send"
                /\ readErr'[w] = "ErrClosed"
                /\ log' = log /\ lines' = lines /\ delivered' = delivered]_vars
    /\ [](\A w \in Loops :
            readErr[w] = "ErrClosed" =>
                /\ pc[w] \in {"send", "exit"}
                /\ doneSent[w] = (IF pc[w] = "exit" THEN 1 ELSE 0)
                /\ (pc[w] = "send" /\ ~crashed) => ENABLED SendDone(w)
                /\ \A i \in 1..Len(log) : log[i].arg # "ErrClosed")

C3_Witness ==
    /\ readErr[1] = "ErrClosed"
    /\ pc[1] = "exit"
    /\ doneSent[1] = 1
    /\ Len(lines) > 0
    /\ \A i \in 1..Len(log) : log[i].msg # StreamErrorMsg

\* C4: no filter is ever invoked for a line whose class unmarshalReport has
\* no case for, and a call of unmarshalReport for such a line answers with
\* an error.
C4_UnknownClassSkipped ==
    /\ \A i \in 1..Len(delivered) :
          lines[delivered[i].n].class \in DecodedClasses
    /\ \A i \in 1..Len(decoded) :
          LET l == lines[decoded[i]]
          IN  l.class \notin DecodedClasses => unmarshalReport(l.class, l).err # Nil

\* C5: a filter registered for a class of the README's list of supported
\* report types is only ever invoked with a non-nil report of that class's
\* struct whose Class field is the class.
C5_DocumentedClassesDecoded ==
    \A i \in 1..Len(delivered) :
        LET d == delivered[i]
        IN  d.key \in DocumentedClasses =>
                /\ d.report # NilReport
                /\ d.report.type = ReportType(d.key)
                /\ d.report.Class = d.key

\* C6: a line whose class cannot be read is printed as one JSON parsing
\* error, is never decoded and never handed to a filter, and does not end
\* the loop (only a read error does); with the filters registered before
\* Watch, every well-formed line with a filter that was read before or after
\* it is handed to all the filters of its class.
C6_MalformedLineIsSkipped ==
    /\ \A n \in Idx :
          Malformed(lines[n]) =>
              /\ Printed(PeekErrorMsg, n) = 1
              /\ Printed(DecodeErrorMsg, n) = 0
              /\ DeliveredFor(n) = <<>>
              /\ \A i \in 1..Len(decoded) : decoded[i] # n
    /\ StopsOnlyOnReadError
    /\ ~lateAdd =>
          \A n, m \in Idx :
              (/\ Malformed(lines[n])
               /\ WellFormed(lines[m]) /\ Subscribed(lines[m]) /\ Settled(m))
              => Len(DeliveredFor(m)) = Len(filters[lines[m].class])

C6_Witness ==
    /\ ~lateAdd
    /\ Len(lines) = 3
    /\ lines[1].class = "TPV" /\ WellFormed(lines[1])
    /\ Malformed(lines[2])
    /\ lines[3].class = "TPV" /\ WellFormed(lines[3])
    /\ filters["TPV"] # <<>>
    /\ Len(DeliveredFor(1)) > 0 /\ Len(DeliveredFor(3)) > 0
    /\ Printed(PeekErrorMsg, 2) = 1
    /\ pc[1] = "read"

C8_NoFilterNoDecode ==
    /\ \A n \in Idx :
          (~Malformed(lines[n]) /\ ~Subscribed(lines[n])) =>
              \A i \in 1..Len(decoded) : decoded[i] # n
    /\ \A i \in 1..Len(decoded) :
          /\ decoded[i] \in Idx
          /\ ~Malformed(lines[decoded[i]])
          /\ Subscribed(lines[decoded[i]])
    /\ ~lateAdd =>
          Len(decoded) =
              Cardinality({n \in Idx : ~Malformed(lines[n]) /\ Subscribed(lines[n])})

C8_Witness ==
    /\ NumFilters = 0
    /\ Len(lines) = 3
    /\ \A n \in Idx : WellFormed(lines[n])
    /\ decoded = <<>>
    /\ pc[1] = "exit"

C10_EofIsSilent ==
    \A i \in 1..Len(log) : ~(log[i].msg = StreamErrorMsg /\ log[i].arg = "EOF")

\* C10 as amended: a read that fails with end-of-stream moves the goroutine
\* out of its loop and is printed as one stream error; only the closed
\* condition is never printed.
C10_EofStopsAndIsPrinted ==
    /\ \A w \in Loops : readErr[w] = "EOF" => pc[w] \in {"send", "exit"}
    /\ Cardinality({i \in 1..Len(log) :
                       log[i].msg = StreamErrorMsg /\ log[i].arg = "EOF"})
          = Cardinality({w \in Loops : readErr[w] = "EOF"})
    /\ \A i \in 1..Len(log) : log[i].arg # "ErrClosed"

C10_Witness ==
    /\ readErr[1] = "EOF"
    /\ pc[1] = "exit"
    /\ Len(lines) > 0

\* The writes SendCommand and Watch made.
Writes(op) == SelectSeq(out, LAMBDA o : o.op = op)

\* The invocations goroutine w made.
DeliveredBy(w) == SelectSeq(delivered, LAMBDA d : d.w = w)

\* The goroutines that are inside a filter.
InCallback == {w \in Loops : pc[w] = "callback"}

\* The goroutines that were started and have not returned.
LiveLoops == {w \in Loops : pc[w] \notin {"none", "exit"}}

\* C11: once a Close has succeeded, no step closes the connection again or
\* reopens the Session, a further Close returns the "already closed" error
\* and can always be called; the connection is closed by a step once at
\* most, only while the Session is open, and a Close succeeds once at most.
C11_SecondCloseIsRejected ==
    /\ [][/\ socket = "nil" =>
                /\ socket' = "nil"
                /\ sockCloses' = sockCloses
                /\ closeRes' \in {closeRes, "already closed"}
          /\ sockCloses' # sockCloses =>
                /\ sockCloses' = sockCloses + 1
                /\ socket = "open"
          /\ (socket = "open" /\ socket' = "nil") =>
                /\ closeRes' = Nil
                /\ sockCloses = 0]_vars
    /\ [](/\ closeRes = "already closed" => socket = "nil"
          /\ socket = "nil" => sockCloses >= 1
          /\ (socket = "nil" /\ ~crashed) => ENABLED Close(Nil))

C11_Witness ==
    /\ closeRes = "already closed"
    /\ sockCloses = 1
    /\ Len(out) = 2
    /\ ~crashed

\* C12: the panic of a filter never ends the process.
C12_PanicIsContained ==
    fault # "panic in filter"

\* C13: SendCommand hands the error of a failed write back to its caller.
C13_WriteErrorIsReturned ==
    \A i \in 1..Len(out) :
        (out[i].op = "SendCommand" /\ out[i].err # Nil) => out[i].ret = out[i].err

\* C14: after a successful Dial that found the banner, the n-th line the
\* watch loops process is line n + 1 of the connection, the banner is never
\* among the processed lines, and no filter is invoked for it, a filter for
\* VERSION included; a failed Dial leaves no Session.
C14_BannerIsConsumedByDial ==
    /\ socket # "none" => dialRes = Nil
    /\ dialRes \notin {"none", Nil} => socket = "none"
    /\ consumed > 0 => consumed = Len(lines) + 1
    /\ consumed = 0 => lines = <<>>
    /\ \A n \in Idx : lines[n] # Banner
    /\ \A i \in 1..Len(delivered) :
          /\ delivered[i].key # "VERSION"
          /\ delivered[i].n + 1 \in 2..consumed

C14_Witness ==
    /\ dialRes = Nil
    /\ consumed = 3
    /\ filters["VERSION"] = <<"f">>
    /\ filters["TPV"] = <<"f">>
    /\ Len(delivered) = 1
    /\ delivered[1].n = 2

\* C15: no call of Watch or SendCommand ends the process, a call on a
\* closed Session included.
C15_NoCallAborts ==
    fault \notin {"Watch: nil socket", "SendCommand: nil socket"}

\* C16: a step changes the filters only by appending one filter to the list
\* of one class; the invocations made for one line are, in order, the
\* filters that were registered for its class when its dispatch began, one
\* invocation for each registration, all with the same report; so they are
\* a prefix of the registrations of the class, and all of them when no
\* filter was added after Watch.
C16_RegistrationOrderDispatch ==
    /\ [][\/ filters' = filters
          \/ \E c \in DOMAIN filters :
                /\ Len(filters'[c]) = Len(filters[c]) + 1
                /\ SubSeq(filters'[c], 1, Len(filters[c])) = filters[c]
                /\ \A d \in DOMAIN filters \ {c} : filters'[d] = filters[d]]_vars
    /\ [](\A n \in Idx :
            LET ds == DeliveredFor(n)
                got == Callbacks(ds)
                regs == IF lines[n].class \in DOMAIN filters
                        THEN filters[lines[n].class] ELSE <<>>
            IN  /\ Len(got) <= Len(regs)
                /\ got = SubSeq(regs, 1, Len(got))
                /\ \A i, j \in 1..Len(ds) : ds[i].report = ds[j].report
                /\ (Len(got) > 0 /\ Settled(n) /\ ~lateAdd) => got = regs
                /\ \A w \in Loops :
                      cur[w].n = n =>
                          /\ got = SubSeq(cur[w].subs, 1, Len(got))
                          /\ Len(got) = (IF pc[w] = "deliver"
                                         THEN cur[w].i - 1 ELSE cur[w].i))

C16_Witness ==
    /\ filters["TPV"] = <<"f", "f">>
    /\ Len(lines) = 1
    /\ Settled(1)
    /\ Len(delivered) = 2
    /\ delivered[1].f = "f" /\ delivered[2].f = "f"
    /\ delivered[1].report = delivered[2].report
    /\ pc[1] = "read"

\* C17: at most one filter of the Session is running at any time.
C17_OneCallbackAtATime ==
    Cardinality(InCallback) <= 1

\* C18: at most one watch goroutine of the Session is alive at any time.
C18_OneWatchLoop ==
    Cardinality(LiveLoops) <= 1

\* C19: a successful write of SendCommand(t) puts '?' t ';' on the wire and
\* a successful write of Watch the WATCH command; Watch has written once
\* before its goroutine exists.
C19_CommandIsWrittenVerbatim ==
    /\ \A i \in 1..Len(out) :
          out[i].err = Nil =>
              out[i].bytes = (IF out[i].op = "SendCommand"
                              THEN "?" \o out[i].text \o ";"
                              ELSE WatchCommand)
    /\ Len(Writes("Watch")) = nWatch
    /\ \A w \in Loops : pc[w] # "none" => w <= nWatch

\* C20: a goroutine that has sent on done has returned: from then on it is
\* in no step, sends nothing more, invokes no filter and takes no line.
C20_NothingAfterDone ==
    [][\A w \in Loops :
          doneSent[w] >= 1 =>
              /\ pc[w] = "exit" /\ pc'[w] = "exit"
              /\ doneSent'[w] = doneSent[w]
              /\ cur'[w] = cur[w] /\ readErr'[w] = readErr[w]
              /\ DeliveredBy(w)' = DeliveredBy(w)
              /\ (\A v \in Loops \ {w} : ~Running(v)) =>
                    lines' = lines /\ consumed' = consumed]_vars

C20_Witness ==
    /\ pc[1] = "exit"
    /\ doneSent[1] = 1
    /\ Len(DeliveredBy(1)) >= 1
    /\ pc[2] = "callback"

====
